---- MODULE Spec2Model ----
(***************************************************************************)
(* BaseFsCache<T> (src/src/base_fs_cache.rs): an in-memory map guarded by  *)
(* an RwLock, a modification counter (AtomicU32), and the save protocol    *)
(* "write <cache_path>.tmp through a BufWriter, then rename it over        *)
(* cache_path".  The file system is modelled as directory entries naming    *)
(* inodes, so that an open file keeps designating the same file after a    *)
(* rename.  Files are sequences of naturals, one per bincode item.          *)
(***************************************************************************)
EXTENDS Integers, Sequences, FiniteSets, TLC

\* ------------------------------------------------------------------ bounds

NumKeys == 3
MaxThreshold == 3
MaxOps == 2
MaxOpsSeq == 3
MaxCrashes == 1
MaxFaults == 1
NumInodes == 4
\* capacity of the BufWriter, in items (std: 8 KiB)
BufCap == 2

Threads == {1, 2}
Keys == 1..NumKeys
\* two values tell an overwrite from a first insertion
Vals == {1, 2}
Inodes == 1..NumInodes

\* ---------------------------------------------------------- the map type
\* CacheDiskFormat<T> = HashMap<PathBuf, T>; Absent marks a key not in the map
Absent == 0
CacheDiskFormat == [Keys -> Vals \cup {Absent}]
EmptyMap == [k \in Keys |-> Absent]
KeysOf(m) == {k \in Keys : m[k] # Absent}
MapLen(m) == Cardinality(KeysOf(m))

\* ------------------------------------------------------------------ paths
\* a path is <<stem, extension>>; the temporary path replaces the extension
CachePaths == {<<"cache", "bin">>, <<"cache", "tmp">>}
WithExtension(p, ext) == <<p[1], ext>>
TempStorePath(p) == WithExtension(p, "tmp")
Names == CachePaths \cup {TempStorePath(p) : p \in CachePaths}

\* ---------------------------------------------------------------- bincode
\* the order in which a HashMap is iterated: unspecified, and the same each
\* time for a map that has not changed; here, by ascending key
RECURSIVE Ascending(_)
Ascending(S) ==
    IF S = {} THEN <<>>
    ELSE LET least == CHOOSE x \in S : \A y \in S : x <= y
         IN  <<least>> \o Ascending(S \ {least})
IterOrders(m) == {Ascending(KeysOf(m))}

RECURSIVE SerializeEntries(_, _)
SerializeEntries(m, order) ==
    IF order = <<>> THEN <<>>
    ELSE <<Head(order), m[Head(order)]>> \o SerializeEntries(m, Tail(order))

\* bincode::serialize_into of a map: the entry count, then key, value pairs
Serialize(m, order) == <<MapLen(m)>> \o SerializeEntries(m, order)

RECURSIVE DeserializeEntries(_, _, _)
DeserializeEntries(bytes, n, acc) ==
    IF n = 0 THEN [ok |-> TRUE, map |-> acc]
    ELSE IF Len(bytes) < 2 \/ bytes[1] \notin Keys \/ bytes[2] \notin Vals
         THEN [ok |-> FALSE, map |-> EmptyMap]
         ELSE DeserializeEntries(SubSeq(bytes, 3, Len(bytes)), n - 1,
                                 [acc EXCEPT ![bytes[1]] = bytes[2]])

\* bincode::deserialize_from: reads the count and that many pairs; an early
\* end of file or an item of the wrong shape is an error; bytes after the
\* last pair are not read
Deserialize(bytes) ==
    IF bytes = <<>> THEN [ok |-> FALSE, map |-> EmptyMap]
    ELSE DeserializeEntries(Tail(bytes), bytes[1], EmptyMap)

\* ------------------------------------------------------------ file system
Max(a, b) == IF a > b THEN a ELSE b

\* write(2) of data at offset off (items before it); a gap reads as zeros
WriteAt(content, off, data) ==
    LET newlen == Max(Len(content), off + Len(data))
    IN  [i \in 1..newlen |->
            IF i > off /\ i <= off + Len(data) THEN data[i - off]
            ELSE IF i <= Len(content) THEN content[i] ELSE 0]

NoHandle == [ino |-> 0, off |-> 0]

\* an inode lives while a directory entry or an open file designates it
Live(d, handles) ==
    {d[n] : n \in Names} \cup {handles[t].ino : t \in Threads}
Reclaim(files, d, handles) ==
    [i \in Inodes |-> IF i \in Live(d, handles) THEN files[i] ELSE <<>>]
FreeInode(d, handles) ==
    CHOOSE i \in Inodes :
        /\ i \notin Live(d, handles)
        /\ \A j \in Inodes : j \notin Live(d, handles) => i <= j

VARIABLES
    \* the process and its BaseFsCache
    phase,                  \* "down" | "up" | "failed"
    new_result,             \* what new() returned
    loaded_from_disk,
    cache_save_threshold,
    cache_modified_count,
    cache_path,
    cache,
    \* the RwLock around cache
    writer,
    readers,
    \* each thread: position, arguments and locals of the call in progress
    pc,
    arg,
    prev_count,
    cache_file,             \* the open temporary file: inode and offset
    cache_buf,              \* items held by the BufWriter
    to_write,               \* items serialize_into has yet to write
    pending,                \* the value save_inner is about to return
    ret,                    \* the last call that returned
    \* the file system
    dir,
    files,
    parent_dir,
    inspectable,
    \* history
    n_ops,
    n_mut,
    autosaves,
    crashes,
    n_faults,
    snapshots,
    target_at_call,
    keys_seen,
    vals_seen,
    recording,              \* whether snapshots is kept
    max_ops,                \* how many calls the run makes
    initial_target

store == <<loaded_from_disk, cache_save_threshold, cache_modified_count,
           cache_path, cache>>
lock == <<writer, readers>>
locals == <<arg, prev_count, cache_file, cache_buf, to_write, pending>>
fs == <<dir, files, parent_dir, inspectable>>
history == <<n_ops, n_mut, autosaves, crashes, n_faults, snapshots,
             target_at_call, keys_seen, vals_seen>>
setup == <<recording, max_ops, initial_target>>
vars == <<phase, new_result, store, lock, pc, locals, ret, fs, history,
          setup>>

\* Path::exists: false as well when the metadata cannot be read
Exists(p) == inspectable /\ dir[p] # 0

NoTarget == [present |-> FALSE, bytes |-> <<>>]
FileAt(d, f, p) ==
    IF d[p] = 0 THEN NoTarget ELSE [present |-> TRUE, bytes |-> f[d[p]]]
Target == FileAt(dir, files, cache_path)

\* the maps the cache has held, and those the initial file held
Remember(m) == IF recording THEN snapshots \cup {m} ELSE snapshots

NoArg == [op |-> "none", key |-> 0, val |-> 0]
NoRet == [op |-> "none", key |-> 0, val |-> 0, res |-> "none", keys |-> <<>>]

\* what a file descriptor's buffered items become once written out
FlushTo(f, handle, buf) ==
    IF buf = <<>> \/ handle.ino = 0 THEN f
    ELSE [f EXCEPT ![handle.ino] = WriteAt(@, handle.off, buf)]

\* u32 arithmetic on 32-bit patterns, written as two's complement integers:
\* -1 stands for 4294967295
WrappingAdd1(c) == IF c = 2147483647 THEN (-2147483647) - 1 ELSE c + 1
WrappingSub1(c) == IF c = (-2147483647) - 1 THEN 2147483647 ELSE c - 1

\* an I/O call fails where the run admits failures and has some left to spend
MayFail(faults) == faults /\ n_faults < MaxFaults

\* ------------------------------------------------------------------- Init
InitialFiles == {<<1, 1, 1>>, <<1, 1>>}

InitCommon ==
    /\ phase = "down"
    /\ new_result = "none"
    /\ loaded_from_disk = FALSE
    /\ cache_modified_count = 0
    /\ cache = EmptyMap
    /\ writer = 0
    /\ readers = {}
    /\ pc = [t \in Threads |-> "idle"]
    /\ arg = [t \in Threads |-> NoArg]
    /\ prev_count = [t \in Threads |-> 0]
    /\ cache_file = [t \in Threads |-> NoHandle]
    /\ cache_buf = [t \in Threads |-> <<>>]
    /\ to_write = [t \in Threads |-> <<>>]
    /\ pending = [t \in Threads |-> "none"]
    /\ ret = [t \in Threads |-> NoRet]
    /\ n_ops = 0
    /\ n_mut = 0
    /\ autosaves = 0
    /\ crashes = 0
    /\ n_faults = 0
    /\ target_at_call = [t \in Threads |-> NoTarget]

\* the file system new() can find: no cache file and no directory for it,
\* or a cache file holding any of InitialFiles, whose metadata can be read
\* or not
InitFs(paths, inspect) ==
    /\ cache_path \in paths
    /\ \/ /\ parent_dir = FALSE
          /\ inspectable = TRUE
          /\ dir = [n \in Names |-> 0]
          /\ files = [i \in Inodes |-> <<>>]
          /\ keys_seen = 0
          /\ vals_seen = 0
       \/ /\ parent_dir = TRUE
          /\ inspectable \in inspect
          /\ \E bytes \in InitialFiles :
                /\ dir = [n \in Names |-> IF n = cache_path THEN 1 ELSE 0]
                /\ files = [i \in Inodes |-> IF i = 1 THEN bytes ELSE <<>>]
          /\ keys_seen = 1
          /\ vals_seen = 1
    /\ initial_target = Target
    /\ snapshots =
          IF recording /\ Target.present /\ Deserialize(Target.bytes).ok
          THEN {Deserialize(Target.bytes).map} ELSE {}

\* several threads, no injected I/O failure, no crash
Init ==
    /\ InitCommon
    /\ recording = FALSE
    /\ max_ops = MaxOps
    /\ cache_save_threshold \in 1..2
    /\ InitFs({<<"cache", "bin">>}, {TRUE})

\* several threads and a store that starts without a cache file
InitFair == Init /\ ~initial_target.present

\* one thread, any threshold new() accepts, either path, I/O that can fail
InitSeq ==
    /\ InitCommon
    /\ recording = FALSE
    /\ max_ops = MaxOpsSeq
    /\ cache_save_threshold \in 0..MaxThreshold
    /\ InitFs(CachePaths, BOOLEAN)

\* one thread, no injected I/O failure, crashes
InitCrash ==
    /\ InitCommon
    /\ recording = TRUE
    /\ max_ops = MaxOpsSeq
    /\ cache_save_threshold \in 1..MaxThreshold
    /\ InitFs(CachePaths, {TRUE})

\* ------------------------------------------------------------ new / load
\* load_cache_from_disk (lines 122-160) on a file system: an empty map when
\* the cache file is not seen, the decoded map, or an error; File::open can
\* fail for a file that is there
LoadCacheFromDisk(seen, target, open_fails) ==
    IF ~seen THEN [res |-> "Ok", map |-> EmptyMap]
    ELSE IF open_fails THEN [res |-> "CacheFileIoError", map |-> EmptyMap]
    ELSE LET decode_result == Deserialize(target.bytes)
         IN  IF decode_result.ok
             THEN [res |-> "Ok", map |-> decode_result.map]
             ELSE [res |-> "DeserializationError", map |-> EmptyMap]

\* what a store constructed now from cache_path would hold
Loaded == LoadCacheFromDisk(Exists(cache_path), Target, FALSE)

\* BaseFsCache::new (lines 33-46)
New(faults) ==
    /\ phase = "down"
    /\ UNCHANGED setup
    /\ \E open_fails \in {FALSE, MayFail(faults) /\ Exists(cache_path)} :
          LET loaded == LoadCacheFromDisk(Exists(cache_path), Target,
                                          open_fails)
          IN  /\ new_result' = loaded.res
              /\ IF loaded.res = "Ok"
                 THEN /\ cache' = loaded.map
                      /\ loaded_from_disk' = TRUE
                      /\ phase' = "up"
                      /\ snapshots' = Remember(loaded.map)
                 ELSE /\ phase' = "failed"
                      /\ UNCHANGED <<cache, loaded_from_disk, snapshots>>
    /\ cache_modified_count' = 0
    /\ n_mut' = 0
    /\ autosaves' = 0
    /\ n_faults' = 0
    /\ UNCHANGED <<cache_save_threshold, cache_path, lock, pc, locals, ret, fs,
                   n_ops, crashes, target_at_call, keys_seen, vals_seen>>

\* Keys and values are interchangeable to the program, so the calls take
\* them in order of first use: a key is one seen before or the next new one
Canonical(k, v) == k <= keys_seen + 1 /\ v <= vals_seen + 1

\* ------------------------------------------------------ call and return
\* a call begins: what the thread's previous call left is forgotten
Called(t) ==
    /\ n_ops' = n_ops + 1
    /\ ret' = [ret EXCEPT ![t] = NoRet]
    /\ target_at_call' = [target_at_call EXCEPT ![t] = NoTarget]

Returned(t, res) ==
    /\ pc' = [pc EXCEPT ![t] = "idle"]
    /\ ret' = [ret EXCEPT ![t] = [op |-> arg[t].op, key |-> arg[t].key,
                                  val |-> arg[t].val, res |-> res, keys |-> <<>>]]
    /\ arg' = [arg EXCEPT ![t] = NoArg]
    /\ prev_count' = [prev_count EXCEPT ![t] = 0]

\* ----------------------------------------------------------------- insert
\* line 167: the counter is incremented before the map is touched
InsertCall(t, k, v) ==
    /\ phase = "up" /\ pc[t] = "idle" /\ n_ops < max_ops
    /\ UNCHANGED setup
    /\ Canonical(k, v)
    /\ keys_seen' = Max(keys_seen, k)
    /\ vals_seen' = Max(vals_seen, v)
    /\ prev_count' = [prev_count EXCEPT ![t] = cache_modified_count]
    /\ cache_modified_count' = WrappingAdd1(cache_modified_count)
    /\ arg' = [arg EXCEPT ![t] = [op |-> "insert", key |-> k, val |-> v]]
    /\ pc' = [pc EXCEPT ![t] = "ins_lock"]
    /\ Called(t)
    /\ n_mut' = n_mut + 1
    /\ UNCHANGED <<phase, new_result, loaded_from_disk, cache_save_threshold,
                   cache_path, cache, lock, cache_file, cache_buf, to_write,
                   pending, fs, autosaves, crashes, n_faults, snapshots>>

InsertedLost(m, k, v) == m

\* line 179: writeable_cache.insert(key, cache_entry)
Inserted(m, k, v) == [m EXCEPT ![k] = v]

WriterAfterMutationKept(t) == t

\* lines 180 and 192: the write guard is dropped at the end of its block
WriterAfterMutation(t) == 0

\* line 175: self.cache.write()
InsertLock(t) ==
    /\ phase = "up" /\ pc[t] = "ins_lock"
    /\ UNCHANGED setup
    /\ writer = 0 /\ readers = {}
    /\ writer' = t
    /\ pc' = [pc EXCEPT ![t] = "ins_mut"]
    /\ UNCHANGED <<phase, new_result, store, readers, locals, ret, fs, history>>

\* lines 179-180: the insertion, and the guard dropped at the end of the block
InsertMutate(t) ==
    /\ phase = "up" /\ pc[t] = "ins_mut"
    /\ UNCHANGED setup
    /\ cache' = Inserted(cache, arg[t].key, arg[t].val)
    /\ writer' = WriterAfterMutation(t)
    /\ pc' = [pc EXCEPT ![t] = "upd"]
    /\ snapshots' = Remember(cache')
    /\ UNCHANGED <<phase, new_result, loaded_from_disk, cache_save_threshold,
                   cache_modified_count, cache_path, readers, locals, ret, fs,
                   n_ops, n_mut, autosaves, crashes, n_faults, target_at_call,
                   keys_seen, vals_seen>>

\* ----------------------------------------------------------------- remove
RemoveCall(t, k) ==
    /\ phase = "up" /\ pc[t] = "idle" /\ n_ops < max_ops
    /\ UNCHANGED setup
    /\ Canonical(k, 0)
    /\ arg' = [arg EXCEPT ![t] = [op |-> "remove", key |-> k, val |-> 0]]
    /\ pc' = [pc EXCEPT ![t] = "rem_lock"]
    /\ Called(t)
    /\ n_mut' = n_mut + 1
    /\ UNCHANGED <<phase, new_result, store, lock, prev_count, cache_file,
                   cache_buf, to_write, pending, fs, autosaves, crashes,
                   n_faults, snapshots, keys_seen, vals_seen>>

RemovedClearing(m, k) == EmptyMap

\* line 191: writeable_cache.remove(key.borrow())
Removed(m, k) == [m EXCEPT ![k] = Absent]

\* line 187: self.cache.write()
RemoveLock(t) ==
    /\ phase = "up" /\ pc[t] = "rem_lock"
    /\ UNCHANGED setup
    /\ writer = 0 /\ readers = {}
    /\ writer' = t
    /\ pc' = [pc EXCEPT ![t] = "rem_mut"]
    /\ UNCHANGED <<phase, new_result, store, readers, locals, ret, fs, history>>

\* lines 191-192: the removal, and the guard dropped at the end of the block
RemoveMutate(t) ==
    /\ phase = "up" /\ pc[t] = "rem_mut"
    /\ UNCHANGED setup
    /\ cache' = Removed(cache, arg[t].key)
    /\ writer' = WriterAfterMutation(t)
    /\ pc' = [pc EXCEPT ![t] = "rem_count"]
    /\ snapshots' = Remember(cache')
    /\ UNCHANGED <<phase, new_result, loaded_from_disk, cache_save_threshold,
                   cache_modified_count, cache_path, readers, locals, ret, fs,
                   n_ops, n_mut, autosaves, crashes, n_faults, target_at_call,
                   keys_seen, vals_seen>>

\* line 193: the counter is incremented after the map was touched
RemoveCount(t) ==
    /\ phase = "up" /\ pc[t] = "rem_count"
    /\ UNCHANGED setup
    /\ prev_count' = [prev_count EXCEPT ![t] = cache_modified_count]
    /\ cache_modified_count' = WrappingAdd1(cache_modified_count)
    /\ pc' = [pc EXCEPT ![t] = "upd"]
    /\ UNCHANGED <<phase, new_result, loaded_from_disk, cache_save_threshold,
                   cache_path, cache, lock, arg, cache_file, cache_buf, to_write,
                   pending, ret, fs, history>>

\* ------------------------------------------- the threshold and the reset
ThresholdReachedOffByOne(prev) == prev = cache_save_threshold
ThresholdReachedAlways(prev) == TRUE

\* line 207: prev_count == self.cache_save_threshold - 1
ThresholdReached(prev) == prev = WrappingSub1(cache_save_threshold)

CounterAfterResetSubtracting(c) == c - cache_save_threshold

\* line 208: self.cache_modified_count.store(0, Relaxed)
CounterAfterReset(c) == 0

EnterSaveInner(t) ==
    /\ pc' = [pc EXCEPT ![t] = "si_dir"]
    /\ target_at_call' = [target_at_call EXCEPT ![t] = Target]

\* lines 207-212.  cache_save_threshold - 1 with a threshold of 0 panics in
\* a build with overflow checks and wraps to u32::MAX in one without
UpdateTransactionCount(t) ==
    /\ phase = "up" /\ pc[t] = "upd"
    /\ UNCHANGED setup
    /\ \/ /\ cache_save_threshold = 0
          /\ pc' = [pc EXCEPT ![t] = "panicked"]
          /\ ret' = [ret EXCEPT ![t] = [op |-> arg[t].op, key |-> arg[t].key,
                                        val |-> arg[t].val, res |-> "panic",
                                        keys |-> <<>>]]
          /\ UNCHANGED <<arg, prev_count, cache_modified_count, autosaves,
                         target_at_call>>
       \/ /\ ThresholdReached(prev_count[t])
          /\ cache_modified_count' = CounterAfterReset(cache_modified_count)
          /\ autosaves' = autosaves + 1
          /\ EnterSaveInner(t)
          /\ UNCHANGED <<arg, prev_count, ret>>
       \/ /\ ~ThresholdReached(prev_count[t])
          /\ Returned(t, "Ok")
          /\ UNCHANGED <<cache_modified_count, autosaves, target_at_call>>
    /\ UNCHANGED <<phase, new_result, loaded_from_disk, cache_save_threshold,
                   cache_path, cache, lock, cache_file, cache_buf, to_write,
                   pending, fs, n_ops, n_mut, crashes, n_faults, snapshots,
                   keys_seen, vals_seen>>

\* ------------------------------------------------------------------- save
ShouldSaveAlways(modified_count) == TRUE

\* line 50: modified_count != 0
ShouldSave(modified_count) == modified_count # 0

\* lines 48-55
SaveCall(t) ==
    /\ phase = "up" /\ pc[t] = "idle"
    /\ UNCHANGED setup
    /\ n_ops < max_ops
    /\ n_ops' = n_ops + 1
    /\ IF ShouldSave(cache_modified_count)
       THEN /\ arg' = [arg EXCEPT ![t] = [op |-> "save", key |-> 0, val |-> 0]]
            /\ ret' = [ret EXCEPT ![t] = NoRet]
            /\ EnterSaveInner(t)
       ELSE /\ pc' = pc
            /\ ret' = [ret EXCEPT ![t] = [op |-> "save", key |-> 0, val |-> 0,
                                          res |-> "Ok", keys |-> <<>>]]
            /\ target_at_call' = [target_at_call EXCEPT ![t] = NoTarget]
            /\ UNCHANGED arg
    /\ UNCHANGED <<phase, new_result, store, lock, prev_count, cache_file,
                   cache_buf, to_write, pending, fs, n_mut, autosaves, crashes,
                   n_faults, snapshots, keys_seen, vals_seen>>

\* lines 62-71: the directory is created when the cache file is not seen
SaveInnerDir(t, faults) ==
    /\ phase = "up" /\ pc[t] = "si_dir"
    /\ UNCHANGED setup
    /\ \/ /\ Exists(cache_path)
          /\ pc' = [pc EXCEPT ![t] = "si_create"]
          /\ UNCHANGED <<parent_dir, arg, prev_count, ret, n_faults>>
       \/ /\ ~Exists(cache_path)
          /\ parent_dir' = TRUE
          /\ pc' = [pc EXCEPT ![t] = "si_create"]
          /\ UNCHANGED <<arg, prev_count, ret, n_faults>>
       \/ /\ ~Exists(cache_path)
          /\ MayFail(faults)
          /\ Returned(t, "CacheFileIoError")
          /\ n_faults' = n_faults + 1
          /\ UNCHANGED parent_dir
    /\ UNCHANGED <<phase, new_result, store, lock, cache_file, cache_buf,
                   to_write, pending, dir, files, inspectable, n_ops, n_mut,
                   autosaves, crashes, snapshots, target_at_call, keys_seen,
                   vals_seen>>

\* lines 76-97: File::create of the temporary path (a new file, or the
\* existing one truncated) and the BufWriter around it.  The read lock that
\* the log statement of lines 78-87 takes is released within the statement.
SaveInnerCreate(t, faults) ==
    /\ phase = "up" /\ pc[t] = "si_create"
    /\ UNCHANGED setup
    /\ LET temp_store_path == TempStorePath(cache_path)
       IN  \/ /\ MayFail(faults) \/ ~parent_dir
              /\ Returned(t, "CacheFileIoError")
              /\ n_faults' = n_faults + 1
              /\ UNCHANGED <<dir, files, cache_file, cache_buf>>
           \/ /\ parent_dir
              /\ dir[temp_store_path] = 0
              /\ LET i == FreeInode(dir, cache_file)
                 IN  /\ dir' = [dir EXCEPT ![temp_store_path] = i]
                     /\ files' = [files EXCEPT ![i] = <<>>]
                     /\ cache_file' = [cache_file EXCEPT
                                          ![t] = [ino |-> i, off |-> 0]]
              /\ cache_buf' = [cache_buf EXCEPT ![t] = <<>>]
              /\ pc' = [pc EXCEPT ![t] = "si_rlock"]
              /\ UNCHANGED <<arg, prev_count, ret, n_faults>>
           \/ /\ parent_dir
              /\ dir[temp_store_path] # 0
              /\ files' = [files EXCEPT ![dir[temp_store_path]] = <<>>]
              /\ cache_file' = [cache_file EXCEPT
                                   ![t] = [ino |-> dir[temp_store_path],
                                           off |-> 0]]
              /\ cache_buf' = [cache_buf EXCEPT ![t] = <<>>]
              /\ pc' = [pc EXCEPT ![t] = "si_rlock"]
              /\ UNCHANGED <<dir, arg, prev_count, ret, n_faults>>
    /\ UNCHANGED <<phase, new_result, store, lock, to_write, pending,
                   parent_dir, inspectable, n_ops, n_mut, autosaves, crashes,
                   snapshots, target_at_call, keys_seen,
                   vals_seen>>

ReadersWithGuardDropped(t) == readers

\* lines 99-102: readable_cache, the read guard, lives to the end of save_inner
ReadersWithGuard(t) == readers \cup {t}

\* lines 99-102: self.cache.read()
SaveInnerReadLock(t) ==
    /\ phase = "up" /\ pc[t] = "si_rlock"
    /\ UNCHANGED setup
    /\ writer = 0
    /\ readers' = ReadersWithGuard(t)
    /\ \E order \in IterOrders(cache) :
          to_write' = [to_write EXCEPT ![t] = Serialize(cache, order)]
    /\ pc' = [pc EXCEPT ![t] = "si_ser"]
    /\ UNCHANGED <<phase, new_result, store, writer, arg, prev_count,
                   cache_file, cache_buf, pending, ret, fs, history>>

\* BufWriter::write of one item: a full buffer is written out first
BufWrite(t, item) ==
    IF Len(cache_buf[t]) + 1 > BufCap
    THEN /\ files' = FlushTo(files, cache_file[t], cache_buf[t])
         /\ cache_file' = [cache_file EXCEPT
                              ![t].off = @ + Len(cache_buf[t])]
         /\ cache_buf' = [cache_buf EXCEPT ![t] = <<item>>]
    ELSE /\ cache_buf' = [cache_buf EXCEPT ![t] = Append(@, item)]
         /\ UNCHANGED <<files, cache_file>>

\* lines 104-109: bincode::serialize_into(&mut cache_buf, ..), item by item
SaveInnerSerialize(t, faults) ==
    /\ phase = "up" /\ pc[t] = "si_ser"
    /\ UNCHANGED setup
    /\ \/ /\ BufWrite(t, Head(to_write[t]))
          /\ to_write' = [to_write EXCEPT ![t] = Tail(@)]
          /\ pc' = [pc EXCEPT ![t] = IF Tail(to_write[t]) = <<>>
                                     THEN "si_rename" ELSE "si_ser"]
          /\ UNCHANGED <<pending, n_faults>>
       \/ /\ MayFail(faults)
          /\ pending' = [pending EXCEPT ![t] = "SerializationError"]
          /\ to_write' = [to_write EXCEPT ![t] = <<>>]
          /\ pc' = [pc EXCEPT ![t] = "si_drop"]
          /\ n_faults' = n_faults + 1
          /\ UNCHANGED <<files, cache_file, cache_buf>>
    /\ UNCHANGED <<phase, new_result, store, lock, arg, prev_count, ret, dir,
                   parent_dir, inspectable, n_ops, n_mut, autosaves, crashes,
                   snapshots, target_at_call, keys_seen,
                   vals_seen>>

\* lines 112-117: std::fs::rename(temp_store_path, &self.cache_path), with
\* cache_buf and the read guard still alive
SaveInnerRename(t, faults) ==
    /\ phase = "up" /\ pc[t] = "si_rename"
    /\ UNCHANGED setup
    /\ LET temp_store_path == TempStorePath(cache_path)
       IN  \/ /\ MayFail(faults) \/ dir[temp_store_path] = 0
              /\ pending' = [pending EXCEPT ![t] = "CacheFileIoError"]
              /\ n_faults' = n_faults + 1
              /\ UNCHANGED <<dir, files>>
           \/ /\ dir[temp_store_path] # 0
              /\ dir' = [n \in Names |->
                            IF n = cache_path THEN dir[temp_store_path]
                            ELSE IF n = temp_store_path THEN 0 ELSE dir[n]]
              /\ files' = Reclaim(files, dir', cache_file)
              /\ pending' = [pending EXCEPT ![t] = "Ok"]
              /\ UNCHANGED n_faults
    /\ pc' = [pc EXCEPT ![t] = "si_drop"]
    /\ UNCHANGED <<phase, new_result, store, lock, arg, prev_count, cache_file,
                   cache_buf, to_write, ret, parent_dir, inspectable, n_ops,
                   n_mut, autosaves, crashes, snapshots, target_at_call, keys_seen,
                   vals_seen>>

ReadersAfterDropLeaked(t) == readers

\* line 120: readable_cache goes out of scope
ReadersAfterDrop(t) == readers \ {t}

\* the end of save_inner's scope (lines 109, 117, 120): the read guard is
\* dropped, then the BufWriter, whose drop writes the buffer out and ignores
\* a failure to do so, then the file is closed
SaveInnerDrop(t, faults) ==
    /\ phase = "up" /\ pc[t] = "si_drop"
    /\ UNCHANGED setup
    /\ readers' = ReadersAfterDrop(t)
    /\ cache_file' = [cache_file EXCEPT ![t] = NoHandle]
    /\ cache_buf' = [cache_buf EXCEPT ![t] = <<>>]
    /\ \/ /\ files' = Reclaim(FlushTo(files, cache_file[t], cache_buf[t]),
                              dir, cache_file')
          /\ UNCHANGED n_faults
       \/ /\ MayFail(faults)
          /\ cache_buf[t] # <<>>
          /\ files' = Reclaim(files, dir, cache_file')
          /\ n_faults' = n_faults + 1
    /\ pending' = [pending EXCEPT ![t] = "none"]
    /\ Returned(t, pending[t])
    /\ UNCHANGED <<phase, new_result, store, writer, to_write, dir, parent_dir,
                   inspectable, n_ops, n_mut, autosaves, crashes, snapshots,
                   target_at_call, keys_seen, vals_seen>>

\* ------------------------------------------------------------------ reads
ReadCall(t, r) ==
    /\ phase = "up" /\ pc[t] = "idle" /\ n_ops < max_ops
    /\ UNCHANGED setup
    /\ Canonical(r.key, 0)
    /\ writer = 0
    /\ ret' = [ret EXCEPT ![t] = r]
    /\ target_at_call' = [target_at_call EXCEPT ![t] = NoTarget]
    /\ n_ops' = n_ops + 1
    /\ UNCHANGED <<phase, new_result, store, lock, pc, locals, fs, n_mut,
                   autosaves, crashes, n_faults, snapshots, keys_seen,
                   vals_seen>>

GetResultDefault(m, k) ==
    [op |-> "get", key |-> k, val |-> m[k], res |-> "Ok", keys |-> <<>>]

\* lines 218-223: a clone of the value, or KeyMissingError with the key
GetResult(m, k) ==
    [op |-> "get", key |-> k, val |-> m[k],
     res |-> IF m[k] # Absent THEN "Ok" ELSE "KeyMissingError", keys |-> <<>>]

\* lines 215-225
Get(t, k) == ReadCall(t, GetResult(cache, k))

\* line 230: cache.contains_key(key.borrow())
ContainsKeyResult(m, k) == m[k] # Absent

\* lines 227-232
ContainsKey(t, k) ==
    ReadCall(t, [op |-> "contains_key", key |-> k, val |-> 0,
                 res |-> IF ContainsKeyResult(cache, k) THEN "true"
                         ELSE "false",
                 keys |-> <<>>])

KeysResultTwice(m, order) == order \o order

\* lines 239-241: .keys().cloned().collect(), the keys as the map iterates
KeysResult(m, order) == [i \in 1..MapLen(m) |-> order[i]]

\* lines 234-242
GetKeys(t) ==
    \E order \in IterOrders(cache) :
        ReadCall(t, [op |-> "keys", key |-> 0, val |-> 0, res |-> "Ok",
                     keys |-> KeysResult(cache, order)])

\* line 250: .len()
LenResult(m) == MapLen(m)

\* lines 245-251
GetLen(t) ==
    ReadCall(t, [op |-> "len", key |-> 0, val |-> LenResult(cache),
                 res |-> "Ok", keys |-> <<>>])

\* ------------------------------------------------------------------ crash
\* the process dies: memory, locks and open files are gone, files stay
Crash ==
    /\ phase = "up"
    /\ UNCHANGED setup
    /\ crashes < MaxCrashes
    /\ crashes' = crashes + 1
    /\ phase' = "down"
    /\ new_result' = "none"
    /\ loaded_from_disk' = FALSE
    /\ cache_modified_count' = 0
    /\ cache' = EmptyMap
    /\ writer' = 0
    /\ readers' = {}
    /\ pc' = [t \in Threads |-> "idle"]
    /\ arg' = [t \in Threads |-> NoArg]
    /\ prev_count' = [t \in Threads |-> 0]
    /\ cache_file' = [t \in Threads |-> NoHandle]
    /\ cache_buf' = [t \in Threads |-> <<>>]
    /\ to_write' = [t \in Threads |-> <<>>]
    /\ pending' = [t \in Threads |-> "none"]
    /\ ret' = [t \in Threads |-> NoRet]
    /\ files' = Reclaim(files, dir, cache_file')
    /\ target_at_call' = [t \in Threads |-> NoTarget]
    /\ UNCHANGED <<cache_save_threshold, cache_path, dir, parent_dir,
                   inspectable, n_ops, n_mut, autosaves, n_faults, snapshots,
                   keys_seen, vals_seen>>

\* ------------------------------------------------------------------- Next
Calls(t) ==
    \/ \E k \in Keys, v \in Vals : InsertCall(t, k, v)
    \/ \E k \in Keys : RemoveCall(t, k)
    \/ SaveCall(t)

Reads(t) ==
    \/ \E k \in Keys : Get(t, k)
    \/ \E k \in Keys : ContainsKey(t, k)
    \/ GetKeys(t)
    \/ GetLen(t)

Steps(t, faults) ==
    \/ InsertLock(t)
    \/ InsertMutate(t)
    \/ RemoveLock(t)
    \/ RemoveMutate(t)
    \/ RemoveCount(t)
    \/ UpdateTransactionCount(t)
    \/ SaveInnerDir(t, faults)
    \/ SaveInnerCreate(t, faults)
    \/ SaveInnerReadLock(t)
    \/ SaveInnerSerialize(t, faults)
    \/ SaveInnerRename(t, faults)
    \/ SaveInnerDrop(t, faults)

Next ==
    \/ New(FALSE)
    \/ \E t \in Threads : Calls(t)
    \/ \E t \in Threads : Reads(t)
    \/ \E t \in Threads : Steps(t, FALSE)

\* one thread, I/O that can fail
NextSeq ==
    \/ New(TRUE)
    \/ Calls(1)
    \/ Reads(1)
    \/ Steps(1, TRUE)

\* one thread, a process that can die at any step and be started again
NextCrash ==
    \/ New(FALSE)
    \/ Calls(1)
    \/ Reads(1)
    \/ Steps(1, FALSE)
    \/ Crash

Spec == Init /\ [][Next]_vars
SpecSeq == InitSeq /\ [][NextSeq]_vars
SpecCrash == InitCrash /\ [][NextCrash]_vars

\* several threads, each scheduled again and again while it has a step to
\* take, and file system calls that return
SpecFair ==
    /\ InitFair
    /\ [][Next]_vars
    /\ \A t \in Threads : WF_vars(Steps(t, FALSE))

\* =================================================================== claims
Decodes(file) == file.present /\ Deserialize(file.bytes).ok
DecodedMap(file) == Deserialize(file.bytes).map
InSaveInner(t) ==
    pc[t] \in {"si_dir", "si_create", "si_rlock", "si_ser", "si_rename",
               "si_drop"}

\* C1: with one saving thread and crashes at any step, whenever the run
\* started from no cache file or from one that decodes, the cache file is
\* absent or decodes to a map the cache held at some earlier instant.  Stated
\* for a cache path whose extension is not "tmp".
C1_TargetAlwaysCompleteSnapshot ==
    (cache_path[2] # "tmp"
        /\ (~initial_target.present \/ Decodes(initial_target)))
    => \/ ~Target.present
       \/ Decodes(Target) /\ DecodedMap(Target) \in snapshots

\* C2: between the creation of the temporary file and the rename, the cache
\* file is what it was when the save started, so a crash there leaves it so
C2_TargetUntouchedBeforeRename ==
    \A t \in Threads :
        pc[t] \in {"si_rlock", "si_ser", "si_rename"}
        => Target = target_at_call[t]

FatalErrors == {"CacheFileIoError", "SerializationError"}
JustReturned(t, op) == phase = "up" /\ pc[t] = "idle" /\ ret[t].op = op

\* C3: with a threshold of at least 1 and a cache file whose metadata can be
\* read, once save() has returned Ok a store constructed from the same path
\* holds the map the store holds
C3_RoundTrip ==
    \A t \in Threads :
        (cache_save_threshold >= 1 /\ inspectable
            /\ JustReturned(t, "save") /\ ret[t].res = "Ok")
        => Loaded.res = "Ok" /\ Loaded.map = cache

Idle == phase = "up" /\ \A t \in Threads : pc[t] = "idle"
Autosaving(t) == InSaveInner(t) /\ arg[t].op \in {"insert", "remove"}

\* C4: with one thread, a threshold T >= 1 and no failing save, after n
\* insert/remove calls floor(n/T) automatic saves have occurred and the
\* counter is n mod T; an automatic save runs within the call that is a
\* T-th mutation; with T = 3 and three keys inserted into an empty store
\* there was one automatic save, the counter is zero and the cache file
\* loads to the map
C4_ThresholdFiring ==
    (cache_save_threshold >= 1 /\ n_faults = 0)
    => /\ Idle => /\ autosaves = n_mut \div cache_save_threshold
                  /\ cache_modified_count = n_mut % cache_save_threshold
       /\ \A t \in Threads :
             Autosaving(t) => /\ n_mut % cache_save_threshold = 0
                              /\ autosaves = n_mut \div cache_save_threshold
       /\ (Idle /\ cache_save_threshold = 3 /\ n_mut = 3 /\ inspectable
              /\ ~initial_target.present /\ MapLen(cache) = 3)
          => /\ autosaves = 1
             /\ cache_modified_count = 0
             /\ Loaded.res = "Ok" /\ Loaded.map = cache

C4_Witness ==
    /\ Idle /\ cache_save_threshold = 3 /\ n_mut = 3 /\ n_faults = 0
    /\ ~initial_target.present /\ MapLen(cache) = 3
    /\ autosaves = 1 /\ cache_modified_count = 0
    /\ Target.present /\ Loaded.map = cache

\* C5: an insert or remove that returned a fatal error has applied its
\* mutation: the key maps to the inserted value, or is gone
C5_MutationAppliedOnError ==
    \A t \in Threads :
        /\ (JustReturned(t, "insert") /\ ret[t].res \in FatalErrors)
           => cache[ret[t].key] = ret[t].val
        /\ (JustReturned(t, "remove") /\ ret[t].res \in FatalErrors)
           => cache[ret[t].key] = Absent

C5_Witness ==
    /\ JustReturned(1, "insert") /\ ret[1].res = "SerializationError"
    /\ GetResult(cache, ret[1].key).res = "Ok"
    /\ GetResult(cache, ret[1].key).val = ret[1].val

\* C6: when new() has returned and a cache file was there, either the file
\* could be inspected and decoded and the store holds its map, or new()
\* returned CacheFileIoError or DeserializationError and there is no store;
\* with no cache file the store is empty
AfterNew == phase # "down" /\ n_ops = 0 /\ crashes = 0
C6_NoSilentEmptyStore ==
    AfterNew
    => IF ~initial_target.present
       THEN new_result = "Ok" /\ phase = "up" /\ cache = EmptyMap
       ELSE IF inspectable /\ Decodes(initial_target)
            THEN \/ new_result = "Ok" /\ cache = DecodedMap(initial_target)
                 \/ new_result = "CacheFileIoError" /\ phase = "failed"
            ELSE /\ new_result \in {"CacheFileIoError", "DeserializationError"}
                 /\ phase = "failed"

ReadOps == {"get", "contains_key", "keys", "len"}
ReadStep(t) ==
    /\ pc[t] = "idle" /\ pc'[t] = "idle"
    /\ n_ops' = n_ops + 1
    /\ ret'[t].op \in ReadOps

\* C7: get, contains_key, keys and len leave the map, the modification
\* counter, the cache file and the temporary file as they were; get(k)
\* returns the stored value when k is present and KeyMissingError for k
\* otherwise, and the number of entries stays the same
C7_ReadsChangeNothing ==
    [][\A t \in Threads :
          ReadStep(t)
          => /\ cache' = cache
             /\ cache_modified_count' = cache_modified_count
             /\ dir' = dir /\ files' = files
             /\ MapLen(cache') = MapLen(cache)
             /\ ret'[t].op = "get"
                => IF cache[ret'[t].key] # Absent
                   THEN ret'[t].res = "Ok" /\ ret'[t].val = cache[ret'[t].key]
                   ELSE ret'[t].res = "KeyMissingError"]_vars

C7_Witness ==
    /\ JustReturned(1, "get") /\ ret[1].res = "KeyMissingError"
    /\ cache[ret[1].key] = Absent
    /\ MapLen(cache) > 0 /\ cache_modified_count > 0 /\ Target.present

SaveCallStep(t) ==
    /\ pc[t] = "idle"
    /\ n_ops' = n_ops + 1
    /\ arg'[t].op = "save" \/ ret'[t].op = "save"
InExplicitSave(t) == InSaveInner(t) /\ arg[t].op = "save"

\* C8: save() enters the write of the snapshot exactly when the counter is
\* not zero and otherwise returns Ok with the files as they were; the
\* counter is the same after every step of an explicit save; a save that
\* wrote without a failure returns Ok with the cache file holding the map
C8_ExplicitSave ==
    [][\A t \in Threads :
          /\ SaveCallStep(t)
             => /\ cache_modified_count' = cache_modified_count
                /\ IF cache_modified_count # 0
                   THEN pc'[t] = "si_dir"
                   ELSE /\ pc'[t] = "idle" /\ ret'[t].res = "Ok"
                        /\ dir' = dir /\ files' = files
          /\ InExplicitSave(t)
             => cache_modified_count' = cache_modified_count
          /\ (InExplicitSave(t) /\ pc'[t] = "idle" /\ n_faults' = 0)
             => /\ ret'[t].res = "Ok"
                /\ Decodes(Target') /\ DecodedMap(Target') = cache']_vars

C8_Witness ==
    /\ JustReturned(1, "save") /\ ret[1].res = "Ok" /\ n_faults = 0
    /\ cache_modified_count # 0
    /\ target_at_call[1] # Target
    /\ Decodes(Target) /\ DecodedMap(Target) = cache

AfterMutation(t) ==
    \/ pc[t] \in {"rem_count", "upd"}
    \/ Autosaving(t)

\* C9: a thread that is past its map mutation in insert or remove (counting
\* the removal, comparing with the threshold and resetting the counter, or
\* in any step of save_inner) does not hold the writer lock; the writer
\* lock is held only at the mutation itself
C9_WriterLockOnlyForMutation ==
    \A t \in Threads :
        /\ AfterMutation(t) => writer # t
        /\ writer = t => pc[t] \in {"ins_mut", "rem_mut"}

C9_Witness ==
    /\ Autosaving(1) /\ pc[1] = "si_dir"
    /\ pc[2] = "ins_mut" /\ writer = 2

WriterLockFree == writer = 0 /\ readers = {}
InDiskWrite(t) == pc[t] \in {"si_ser", "si_rename"}
WaitsForWriter(t) == pc[t] \in {"ins_lock", "rem_lock"}

C11_OverlappingSavesComplete ==
    /\ \A t \in Threads : pc[t] = "si_drop" => pending[t] = "Ok"
    /\ (Idle /\ Target # initial_target) => Decodes(Target)

BothAutosaving == \A t \in Threads : Autosaving(t)
SavesDue == n_mut \div cache_save_threshold

ResetStep(t) == pc[t] = "upd" /\ pc'[t] = "si_dir"
Accounted ==
    (cache_save_threshold >= 1 /\ Idle)
    => cache_modified_count + cache_save_threshold * autosaves <= n_mut

\* C13: the reset stores zero whatever the counter has become since the
\* resetting thread's fetch_add, so increments made by other threads in
\* between are wiped (the counter is then at least T at the reset); at rest
\* the counter and T per automatic save account for at most the n mutations,
\* and can account for fewer
C13_ResetWipesIncrements ==
    [][/\ \A t \in Threads :
             ResetStep(t) => /\ cache_modified_count >= cache_save_threshold
                             /\ cache_modified_count' = 0
                             /\ autosaves' = autosaves + 1
       /\ Accounted']_vars

\* a crossing was missed: two mutations done with T = 1, one automatic save
C13_Witness ==
    /\ Idle /\ cache_save_threshold = 1 /\ n_mut = 2
    /\ autosaves = 1 /\ autosaves < SavesDue
    /\ cache_modified_count = 0

Range(seq) == {seq[i] : i \in 1..Len(seq)}

\* C14: keys() returns, each once, exactly the keys for which contains_key
\* is true and get returns Ok in the map as it is at the call, and len() is
\* the number of those keys
C14_ReadersAgree ==
    [][\A t \in Threads :
          ReadStep(t)
          => LET r == ret'[t]
                 present == {k \in Keys : ContainsKeyResult(cache, k)}
             IN  /\ present = {k \in Keys : GetResult(cache, k).res = "Ok"}
                 /\ LenResult(cache) = Cardinality(present)
                 /\ r.op = "keys"
                    => /\ Range(r.keys) = present
                       /\ Len(r.keys) = Cardinality(present)
                 /\ r.op = "len" => r.val = Cardinality(present)
                 /\ r.op = "contains_key"
                    => (r.res = "true" <=> r.key \in present)
                 /\ r.op = "get" => (r.res = "Ok" <=> r.key \in present)]_vars

\* keys() after two inserts into an empty store lists both keys
C14_Witness ==
    /\ JustReturned(1, "keys") /\ n_mut = 2 /\ ~initial_target.present
    /\ ret[1].keys = <<1, 2>> /\ LenResult(cache) = 2

WaitsForLock(t) == pc[t] \in {"ins_lock", "rem_lock", "si_rlock"}
HoldsLock(t) == writer = t \/ t \in readers

\* C15: under fair scheduling every call in progress returns; no thread
\* waits for the map lock while it holds the lock itself
C15_EveryCallReturns ==
    /\ [](\A t \in Threads : WaitsForLock(t) => ~HoldsLock(t))
    /\ \A t \in Threads : (pc[t] # "idle") ~> (pc[t] = "idle")

\* a save waits for the read lock while the other thread holds the writer
\* lock
C15_Witness == pc[1] = "si_rlock" /\ writer = 2 /\ pc[2] = "ins_mut"

Moves(t, from, to) == pc[t] = from /\ pc'[t] = to

\* C16: a remove of a key that is not in the map leaves the map as it is,
\* adds one to the counter, saves automatically when it found the counter
\* at T-1, and never returns a key-missing error; an insert adds one to the
\* counter also when the key already has that value
C16_EveryCallCounts ==
    [][\A t \in Threads :
          /\ (Moves(t, "rem_mut", "rem_count") /\ cache[arg[t].key] = Absent)
             => cache' = cache
          /\ Moves(t, "rem_count", "upd")
             => /\ cache_modified_count' = cache_modified_count + 1
                /\ prev_count'[t] = cache_modified_count
          /\ Moves(t, "idle", "ins_lock")
             => /\ cache_modified_count' = cache_modified_count + 1
                /\ prev_count'[t] = cache_modified_count
          /\ (pc[t] = "upd" /\ pc'[t] # "upd" /\ cache_save_threshold >= 1
                 /\ prev_count[t] = cache_save_threshold - 1)
             => pc'[t] = "si_dir"
          /\ (pc[t] # "idle" /\ pc'[t] = "idle" /\ ret'[t].op = "remove")
             => ret'[t].res \in {"Ok"} \cup FatalErrors]_vars

\* a remove on an empty store that was the T-th mutation and wrote the file
C16_Witness ==
    /\ JustReturned(1, "remove") /\ ret[1].res = "Ok"
    /\ ~initial_target.present /\ cache = EmptyMap
    /\ cache_save_threshold = 2 /\ n_mut = 2 /\ autosaves = 1
    /\ cache_modified_count = 0 /\ Target.present

ReturnsFromSaveInner(t) == InSaveInner(t) /\ pc'[t] = "idle"

\* C17: when save_inner returns an error the cache file is what it was when
\* save_inner was entered; when it returns Ok the cache file is a complete
\* encoding of the map
C17_ErrorLeavesTargetOkWritesSnapshot ==
    [][\A t \in Threads :
          ReturnsFromSaveInner(t)
          => IF ret'[t].res \in FatalErrors
             THEN Target' = target_at_call[t]
             ELSE /\ ret'[t].res = "Ok"
                  /\ Decodes(Target') /\ DecodedMap(Target') = cache']_vars

\* C18: for every threshold new() accepts, no insert or remove aborts at the
\* threshold comparison, and threshold - 1 does not go below zero where it
\* is evaluated
C18_ThresholdComparisonInRange ==
    \A t \in Threads :
        /\ pc[t] # "panicked"
        /\ pc[t] = "upd" => cache_save_threshold - 1 >= 0

Persisted ==
    IF Target.present THEN Loaded.res = "Ok" /\ Loaded.map = cache
    ELSE cache = EmptyMap

\* C19: with several threads, when no call is in progress, no save has
\* failed and the counter is zero, the cache file loads to the map the store
\* holds, or is absent with the map empty
C19_ZeroCounterMeansPersisted ==
    (Idle /\ n_faults = 0 /\ cache_modified_count = 0) => Persisted

\* C20: with one thread, an insert or remove whose automatic save returned
\* an error leaves the counter non-zero, and between calls a zero counter
\* means the cache file loads to the map the store holds
C20_FailedSaveKeepsCounter ==
    /\ \A t \in Threads :
          (pc[t] = "idle" /\ phase = "up" /\ ret[t].op \in {"insert", "remove"}
              /\ ret[t].res \in FatalErrors)
          => cache_modified_count # 0
    /\ (Idle /\ inspectable /\ cache_modified_count = 0) => Persisted
====
